---------------------------- MODULE Spec2Model ----------------------------
(***************************************************************************)
(* TimePerf (src/time-perf.js): the step recorder, its pause accounting,   *)
(* its child sessions, its report and the registry of named instances.     *)
(*                                                                         *)
(* Sessions are objects on a heap, named by their index in `heap';         *)
(* session 1 is the exported singleton (module.exports = new TimePerf()).  *)
(* Date.now() is the variable `now', which only grows.  console.log and    *)
(* console.error append to the `out' field of the call being made.         *)
(*                                                                         *)
(* JavaScript arrays are 0-based and sequences here are 1-based: the step  *)
(* the code calls steps[i] is steps[i + 1] here (operator StepAt).         *)
(* The report's box-drawing characters are written in ASCII:               *)
(* "|" for the left bar, "#" for the half block, "*" for the square,       *)
(* "<<" and ">>" for the guillemets.                                       *)
(***************************************************************************)
EXTENDS Integers, Sequences, FiniteSets, TLC

MaxClock == 2

MaxSteps == 3

MaxSessions == 3

\* `undefined' as a name argument (a call that passes no name).
Undef == "<undefined>"

\* The name arguments passed: none, the empty string, a name.
NameArgs == {Undef, "", "A"}

Keys == {"k1", "k2"}

\* JavaScript truthiness of a name argument: undefined and "" are falsy.
Falsy(name) == name \in {Undef, ""}

\* String(name) as the template and + operators compute it.
Str(name) == IF name = Undef THEN "undefined" ELSE name

Min(a, b) == IF a <= b THEN a ELSE b

RECURSIVE Tabs(_)
Tabs(n) == IF n <= 0 THEN "" ELSE "\t" \o Tabs(n - 1)

(***************************************************************************)
(* The value of this.result: a number, or an array of percentages.  A      *)
(* percentage 100 * iDuration / testDuration is kept as the exact fraction *)
(* num / den; den = 0 is the NaN that 0 / 0 gives.                         *)
(***************************************************************************)
Num(n) == [kind |-> "number", num |-> n, arr |-> <<>>]

Arr(a) == [kind |-> "array", num |-> 0, arr |-> a]

PercentageMut(iDuration, testDuration) == [num |-> iDuration, den |-> testDuration]

Percentage(iDuration, testDuration) == [num |-> 100 * iDuration, den |-> testDuration]

\* Number.prototype.toFixed(2) of a fraction >= 0: round to hundredths, ties up.
\* Exact for den < 32, where 100 * n / den is never within a rounding error of a tie.
ToFixed2(p) ==
  IF p.den = 0 THEN "NaN"
  ELSE LET h == (2 * 100 * p.num + p.den) \div (2 * p.den)
           c == h % 100
       IN  ToString(h \div 100) \o "." \o (IF c < 10 THEN "0" ELSE "") \o ToString(c)

(***************************************************************************)
(* new TimePerf(depth).  The fields whose names start with g are history:  *)
(* the code does not hold them, the properties read them.                  *)
(*   gBorn      steps.length of the parent when child() made this session  *)
(*   gWall      the clock when the last step was recorded                  *)
(*   gBecame    the clock when the session went from running to paused     *)
(*   gLastPause the clock of the latest pause() call of the current pause  *)
(*   gPaused    since the last recorded step, the time from becoming       *)
(*              paused to unpause()                                        *)
(*   gExcl      since the last recorded step, the time from the latest     *)
(*              pause() call to unpause()                                  *)
(* and in a step, against the step before it (0 in the first step):        *)
(*   gGap       (clock delta - gPaused) - the recorded delta               *)
(*   gGapLatest (clock delta - gExcl) - the recorded delta                 *)
(***************************************************************************)
TimePerf(depth, born) ==
  [ steps      |-> <<>>,
    pauseStep  |-> 0,
    pauseTime  |-> 0,
    result     |-> Num(0),
    strResult  |-> "TimePerf created",
    children   |-> <<>>,
    tag        |-> "[TimePerf] ",
    depth      |-> depth,
    name       |-> "TimePerf session " \o ToString(depth),
    gBorn      |-> born,
    gWall      |-> 0,
    gBecame    |-> 0,
    gLastPause |-> 0,
    gPaused    |-> 0,
    gExcl      |-> 0 ]

\* An object nothing refers to any more (garbage collected).
Freed == [TimePerf(0, 0) EXCEPT !.name = "<freed>", !.strResult = ""]

\* The code's steps[i].
StepAt(sess, i) == sess.steps[i + 1]

(***************************************************************************)
(* The methods, as functions of a world w = [h, out]: the heap and the     *)
(* console lines written so far in this call.  s is `this', t the value    *)
(* Date.now() returns.                                                     *)
(***************************************************************************)
Say(w, msg) == [w EXCEPT !.out = Append(@, msg)]

reset(w, s) ==
  [w EXCEPT !.h[s] = [@ EXCEPT !.steps = <<>>,
                               !.pauseStep = 0,
                               !.pauseTime = 0,
                               !.result = Num(0),
                               !.strResult = "TimePerf reset",
                               !.gWall = 0,
                               !.gBecame = 0,
                               !.gLastPause = 0,
                               !.gPaused = 0,
                               !.gExcl = 0]]

StepTimeMut(t, pauseTime) == t + pauseTime

StepTime(t, pauseTime) == t - pauseTime

StepChildrenMut(children) == <<>>

\* The children a new step takes: the array this.children itself.
StepChildren(children) == children

StepWhilePausedMut(w, s, name) ==
  [w EXCEPT !.h[s].result = Num(Len(w.h[s].steps))]

\* step(), the branch taken during a pause: lines 167-171.
StepWhilePaused(w, s, name) ==
  [Say(w, "/!\\ " \o w.h[s].tag \o w.h[s].name
            \o " can't mark a step during a pause or when it's stopped ("
            \o Str(name) \o " step has been ignored)")
     EXCEPT !.h[s].result = Num(0)]

StepMut(w, s, name, t) ==
  LET me == w.h[s] IN
  IF me.pauseStep # 0 THEN StepWhilePaused(w, s, name)
  ELSE
    LET nm == IF Falsy(name) THEN "Step " \o ToString(Len(me.steps)) \o "1" ELSE name
        time == StepTime(t, me.pauseTime)
        recorded == IF me.steps = <<>> THEN 0 ELSE time - me.steps[Len(me.steps)].time
        st == [ time       |-> time,
                name       |-> nm,
                children   |-> StepChildren(me.children),
                gGap       |-> IF me.steps = <<>> THEN 0
                               ELSE ((t - me.gWall) - me.gPaused) - recorded,
                gGapLatest |-> IF me.steps = <<>> THEN 0
                               ELSE ((t - me.gWall) - me.gExcl) - recorded ]
        res == Len(me.steps) + 1 - 1
    IN  [w EXCEPT !.h[s] = [@ EXCEPT !.steps = Append(@, st),
                                     !.result = Num(res),
                                     !.strResult = "[TimePerf] > " \o ToString(res) \o ". " \o nm,
                                     !.gWall = t,
                                     !.gPaused = 0,
                                     !.gExcl = 0]]

step(w, s, name, t) ==
  LET me == w.h[s] IN
  IF me.pauseStep # 0 THEN StepWhilePaused(w, s, name)
  ELSE
    LET nm == IF Falsy(name) THEN "Step " \o ToString(Len(me.steps)) \o "1" ELSE name
        time == StepTime(t, me.pauseTime)
        recorded == IF me.steps = <<>> THEN 0 ELSE time - me.steps[Len(me.steps)].time
        st == [ time       |-> time,
                name       |-> nm,
                children   |-> StepChildren(me.children),
                gGap       |-> IF me.steps = <<>> THEN 0
                               ELSE ((t - me.gWall) - me.gPaused) - recorded,
                gGapLatest |-> IF me.steps = <<>> THEN 0
                               ELSE ((t - me.gWall) - me.gExcl) - recorded ]
        res == Len(me.steps) + 1 - 1
    IN  [w EXCEPT !.h[s] = [@ EXCEPT !.steps = Append(@, st),
                                     !.children = <<>>,
                                     !.result = Num(res),
                                     !.strResult = "[TimePerf] > " \o ToString(res) \o ". " \o nm,
                                     !.gWall = t,
                                     !.gPaused = 0,
                                     !.gExcl = 0]]

PauseMut(w, s, t) ==
  [w EXCEPT !.h[s] = [@ EXCEPT !.pauseStep = IF w.h[s].pauseStep = 0 THEN t ELSE @,
                               !.gBecame = IF w.h[s].pauseStep = 0 THEN t ELSE @,
                               !.gLastPause = t]]

pause(w, s, t) ==
  [w EXCEPT !.h[s] = [@ EXCEPT !.pauseStep = t,
                               !.gBecame = IF w.h[s].pauseStep = 0 THEN t ELSE @,
                               !.gLastPause = t]]

PauseDurationMut(t, pauseStep) == t

\* res = Date.now() - this.pauseStep
PauseDuration(t, pauseStep) == t - pauseStep

UnpauseMut(w, s, t) ==
  LET me == w.h[s]
      res == PauseDuration(t, me.pauseStep)
  IN  [w EXCEPT !.h[s] = [@ EXCEPT !.pauseTime = @ + res,
                                   !.strResult = "/!\\ " \o me.tag \o me.name
                                                   \o " has not been paused before to unpause.",
                                   !.pauseStep = 0,
                                   !.result = Num(0)]]

unpause(w, s, t) ==
  LET me == w.h[s] IN
  IF me.pauseStep # 0
  THEN LET res == PauseDuration(t, me.pauseStep) IN
       [w EXCEPT !.h[s] = [@ EXCEPT !.pauseTime = @ + res,
                                    !.strResult = me.tag \o me.name \o " has marked a "
                                                    \o ToString(res) \o " ms pause",
                                    !.pauseStep = 0,
                                    !.result = Num(res),
                                    !.gPaused = @ + (t - me.gBecame),
                                    !.gExcl = @ + (t - me.gLastPause),
                                    !.gBecame = 0,
                                    !.gLastPause = 0]]
  ELSE [w EXCEPT !.h[s] = [@ EXCEPT !.strResult = "/!\\ " \o me.tag \o me.name
                                                    \o " has not been paused before to unpause.",
                                    !.pauseStep = 0,
                                    !.result = Num(0)]]

StartMut(w, s, name, t) ==
  LET w1 == IF Falsy(name) THEN w ELSE [w EXCEPT !.h[s].name = name]
      w2 == step(w1, s, Undef, t)
  IN  [w2 EXCEPT !.h[s] = [@ EXCEPT !.result = Num(0),
                                    !.strResult = w2.h[s].tag \o w2.h[s].name \o " started"]]

start(w, s, name, t) ==
  LET w1 == IF Falsy(name) THEN w ELSE [w EXCEPT !.h[s].name = name]
      w2 == step(reset(w1, s), s, Undef, t)
  IN  [w2 EXCEPT !.h[s] = [@ EXCEPT !.result = Num(0),
                                    !.strResult = w2.h[s].tag \o w2.h[s].name \o " started"]]

StopMut(w, s, name, t1, t2) ==
  LET w1 == step(w, s, IF Falsy(name) THEN w.h[s].name ELSE name, t1)
  IN  [w1 EXCEPT !.h[s] = [@ EXCEPT !.result = Num(0),
                                    !.strResult = w1.h[s].tag \o w1.h[s].name \o " stopped"]]

\* stop() reads the clock twice: t1 in step(), t2 >= t1 in pause().
stop(w, s, name, t1, t2) ==
  LET w1 == pause(step(w, s, IF Falsy(name) THEN w.h[s].name ELSE name, t1), s, t2)
  IN  [w1 EXCEPT !.h[s] = [@ EXCEPT !.result = Num(0),
                                    !.strResult = w1.h[s].tag \o w1.h[s].name \o " stopped"]]

log(w, s) == IF w.h[s].strResult # "" THEN Say(w, w.h[s].strResult) ELSE w

(***************************************************************************)
(* print(index, silent).  The argument list is a record a:                 *)
(*   a.soleTrue  the call is print(true): arguments.length == 1 and        *)
(*               arguments[0] === true                                     *)
(*   a.index     the index argument; 0 stands for every falsy index        *)
(*               (absent, undefined, null, 0), which the code treats alike *)
(*   a.silent    the silent argument (absent is FALSE)                     *)
(* The calls made: print(), print(1), print(2), print(undefined, true) and *)
(* print(true).                                                            *)
(***************************************************************************)
PrintArgs ==
  [soleTrue : {FALSE}, index : 0 .. 2, silent : {FALSE}]
    \cup {[soleTrue |-> FALSE, index |-> 0, silent |-> TRUE]}
    \cup {[soleTrue |-> TRUE, index |-> 0, silent |-> FALSE]}

NotEnoughStepsMut(n) ==
  "undefined\n/!\\ TimePerf did not find enough steps too display a result"
    \o "undefined\n\t> TimePerf has not been started\n"

\* `indent' is a hoisted var, still undefined below two steps.
NotEnoughSteps(n) ==
  "undefined\n/!\\ TimePerf did not find enough steps too display a result"
    \o (IF n = 1
        THEN "undefined\n\t> TimePerf is started but never stepped/stopped\n"
        ELSE "undefined\n\t> TimePerf has not been started\n")

\* Lines 221-226: the index print() uses when it is given none.
ResolveIndex(me, index) ==
  IF index # 0 THEN index
  ELSE IF me.result.kind = "number" /\ me.result.num > 0 THEN me.result.num
  ELSE IF me.depth > 0 THEN Len(me.steps) - 1
  ELSE 0

SingleResultMut(index) == index # 0 /\ index > 0 /\ index < 1

\* Line 227: index && index > 0 && index < 2
SingleResult(index) == index # 0 /\ index > 0 /\ index < 2

Banner ==
  "+-----------------------------+\n" \o "|       TimePerf result       |\n"
    \o "+-----------------------------+\n"

StepLine(indent, i, st, percentage, iDuration) ==
  "|" \o indent \o " * " \o ToString(i) \o ". " \o st.name \o "\t: "
    \o ToFixed2(percentage) \o " %\t (" \o ToString(iDuration) \o " ms)\n"

RECURSIVE print(_, _, _), ReportSteps(_, _, _, _), ReportChildren(_, _, _, _)

\* Lines 253-255: the children of one step, printed silently in order, their
\* text appended to r.str.  r = [w, str, pcts].
ReportChildren(r, kids, j, unused) ==
  IF j > Len(kids) THEN r
  ELSE LET w1 == print(r.w, kids[j], [soleTrue |-> TRUE, index |-> 0, silent |-> FALSE])
       IN  ReportChildren([r EXCEPT !.w = w1, !.str = @ \o w1.h[kids[j]].strResult],
                          kids, j + 1, unused)

\* Lines 245-256: the loop over the steps i, i + 1, ... of session s.
ReportSteps(r, s, i, testDuration) ==
  LET me == r.w.h[s] IN
  IF i >= Len(me.steps) THEN r
  ELSE LET st == StepAt(me, i)
           iDuration == st.time - StepAt(me, i - 1).time
           percentage == Percentage(iDuration, testDuration)
           r1 == [r EXCEPT !.pcts = Append(@, percentage),
                           !.str = @ \o StepLine(Tabs(me.depth), i, st, percentage, iDuration)]
       IN  ReportSteps(ReportChildren(r1, st.children, 1, 0), s, i + 1, testDuration)

print(w, s, a) ==
  LET me == w.h[s] IN
  IF Len(me.steps) < 2
  THEN LET w1 == [w EXCEPT !.h[s] = [@ EXCEPT !.strResult = NotEnoughSteps(Len(me.steps)),
                                              !.result = Arr(<<>>)]]
       IN  IF a.silent THEN w1 ELSE log(w1, s)
  ELSE
    LET indent == Tabs(me.depth)
        silent == a.soleTrue \/ a.silent
        index  == ResolveIndex(me, IF a.soleTrue THEN 0 ELSE a.index)
        w1 ==
          IF SingleResult(index)
          THEN LET res == StepAt(me, index).time - StepAt(me, index - 1).time IN
               [w EXCEPT !.h[s] = [@ EXCEPT !.result = Num(res),
                                            !.strResult = indent \o "> " \o StepAt(me, index).name
                                                            \o "\t: " \o ToString(res) \o " ms\n"]]
          ELSE LET nbSteps == Len(me.steps) - 1
                   testDuration == StepAt(me, nbSteps).time - StepAt(me, 0).time
                   head == (IF me.depth = 0 THEN Banner ELSE "")
                             \o "|" \o indent \o " << " \o me.name \o " >>\n"
                             \o "|" \o indent \o "# TimePerf duration : "
                             \o ToString(testDuration) \o " ms\n"
                             \o "|" \o indent \o "# Pause duration    : "
                             \o ToString(me.pauseTime) \o " ms\n"
                   r == ReportSteps([w |-> w, str |-> head, pcts |-> <<>>], s, 1, testDuration)
               IN  [r.w EXCEPT !.h[s] = [@ EXCEPT !.result = Arr(r.pcts),
                                                  !.strResult = r.str]]
    IN  IF silent THEN w1 ELSE log(w1, s)

(***************************************************************************)
(* Children.  child() returns the new session, or undefined (0 here) when  *)
(* the session has no step.                                                *)
(***************************************************************************)
NoSession == 0

childResult(w, s) == IF Len(w.h[s].steps) > 0 THEN Len(w.h) + 1 ELSE NoSession

ChildMut(w, s) ==
  IF Len(w.h[s].steps) > 0
  THEN LET newChild == TimePerf(w.h[s].depth, Len(w.h[s].steps))
           w1 == [w EXCEPT !.h = Append(@, newChild)]
       IN  [w1 EXCEPT !.h[s].children = Append(@, Len(w1.h))]
  ELSE Say(w, "TimePerf hasn't been started. Child can't be created without available parent")

child(w, s) ==
  IF Len(w.h[s].steps) > 0
  THEN LET newChild == TimePerf(w.h[s].depth + 1, Len(w.h[s].steps))
           w1 == [w EXCEPT !.h = Append(@, newChild)]
       IN  [w1 EXCEPT !.h[s].children = Append(@, Len(w1.h))]
  ELSE Say(w, "TimePerf hasn't been started. Child can't be created without available parent")

ChildStopMut(w, s, name, t1, t2) ==
  LET kids == w.h[s].children IN
  IF Len(kids) > 0
  THEN stop(w, kids[1], name, t1, t2)
  ELSE Say(w, w.h[s].tag \o "No child has been started yet")

childStop(w, s, name, t1, t2) ==
  LET kids == w.h[s].children IN
  IF Len(kids) > 0
  THEN stop(w, kids[Len(kids)], name, t1, t2)
  ELSE Say(w, w.h[s].tag \o "No child has been started yet")

lastChildResult(w, s) ==
  LET kids == w.h[s].children IN
  IF Len(kids) > 0 THEN kids[Len(kids)] ELSE s

lastChild(w, s) ==
  IF Len(w.h[s].children) > 0 THEN w
  ELSE Say(w, w.h[s].tag \o "No child has been started yet")

\* getTime(index): the duration, or undefined (the number is then absent).
getTimeDefined(me, index) == index > 0 /\ index < Len(me.steps)

GetTimeMut(me, index) == StepAt(me, index).time - StepAt(me, 0).time

getTime(me, index) == StepAt(me, index).time - StepAt(me, index - 1).time

(***************************************************************************)
(* The registry this.instances of the singleton: w.inst maps a key to its  *)
(* session, NoSession when the key is absent.                              *)
(***************************************************************************)
NewInstanceMut(w, name) ==
  LET w1 == [w EXCEPT !.h = Append(@, TimePerf(0, 0))]
  IN  [w1 EXCEPT !.inst[name] = Len(w1.h)]

newInstance(w, name) ==
  IF w.inst[name] = NoSession
  THEN LET w1 == [w EXCEPT !.h = Append(@, TimePerf(0, 0))]
       IN  [w1 EXCEPT !.inst[name] = Len(w1.h)]
  ELSE w

getInstance(w, name) == newInstance(w, name)

StartInstanceMut(w, name, t) ==
  LET w1 == getInstance(w, name)
  IN  start(w1, w1.inst[name], name, t)

startInstance(w, name, t) ==
  LET w1 == getInstance(w, name)
      tpInst == w1.inst[name]
  IN  IF w1.h[tpInst].pauseStep # 0 THEN unpause(w1, tpInst, t)
      ELSE start(w1, tpInst, name, t)

DeleteInstanceMut(w, name) == w

DeleteInstanceAll(w, name) == [w EXCEPT !.inst = [k \in Keys |-> NoSession]]

\* delete this.instances[name]
DeleteInstance(w, name) == [w EXCEPT !.inst[name] = NoSession]

stopInstance(w, name, endCondition, t1, t2) ==
  LET w1 == getInstance(w, name)
      tpInst == w1.inst[name]
  IN  IF endCondition
      THEN DeleteInstance(print(stop(w1, tpInst, Undef, t1, t2), tpInst,
                                [soleTrue |-> FALSE, index |-> 0, silent |-> FALSE]), name)
      ELSE pause(w1, tpInst, t1)

cleanInstances(w) == [w EXCEPT !.inst = [k \in Keys |-> NoSession]]

(***************************************************************************)
(* The state.                                                              *)
(*   now        what Date.now() returns                                    *)
(*   heap       the TimePerf objects; heap[1] is the singleton             *)
(*   instances  the singleton's this.instances                             *)
(*   call       the last call made: the method, its receiver, arguments,   *)
(*              what it returned and what it wrote to the console          *)
(***************************************************************************)
VARIABLES now, heap, instances, call

vars == <<now, heap, instances, call>>

\* What a call returns: `this', another session, undefined, a number; or it throws.
Call(op, self, ret, retv) ==
  [op |-> op, self |-> self, key |-> "", flag |-> FALSE, index |-> 0,
   ret |-> ret, retv |-> retv, out |-> <<>>]

World == [h |-> heap, out |-> <<>>, inst |-> instances]

\* The sessions a session refers to: its pending children and its steps' children.
Refs(sess) ==
  {sess.children[j] : j \in 1 .. Len(sess.children)}
    \cup UNION {{sess.steps[i].children[j] : j \in 1 .. Len(sess.steps[i].children)}
                  : i \in 1 .. Len(sess.steps)}

RECURSIVE Reach(_, _)
Reach(h, S) ==
  LET T == S \cup UNION {Refs(h[s]) : s \in S}
  IN  IF T = S THEN S ELSE Reach(h, T)

\* The caller holds the singleton, the registry's sessions and what the last call returned.
Roots(inst, c) ==
  {1} \cup {inst[k] : k \in {k \in Keys : inst[k] # NoSession}}
      \cup (IF c.ret \in {"this", "session"} THEN {c.retv} ELSE {})

\* Objects out of reach are reclaimed.
Collect(h, inst, c) ==
  LET live == Reach(h, Roots(inst, c))
  IN  [i \in 1 .. Len(h) |-> IF i \in live THEN h[i] ELSE Freed]

Live == {s \in 1 .. Len(heap) : heap[s] # Freed}

Commit(w, c) ==
  LET c1 == [c EXCEPT !.out = w.out] IN
  /\ heap' = Collect(w.h, w.inst, c1)
  /\ instances' = w.inst
  /\ call' = c1

Init ==
  /\ now = 1
  /\ heap = <<TimePerf(0, 0)>>
  /\ instances = [k \in Keys |-> NoSession]
  /\ call = Call("new", 1, "this", 1)

\* Time passes between two calls.
Tick ==
  /\ now < MaxClock
  /\ now' = now + 1
  /\ call' = Call("tick", 1, "undefined", 0)
  /\ UNCHANGED <<heap, instances>>

\* Within a call, a second Date.now() may read a later clock (drift 1) or not (0).
Later(drift) == now .. Min(now + drift, MaxClock)

CanStep(s) == heap[s].pauseStep # 0 \/ Len(heap[s].steps) < MaxSteps

(***************************************************************************)
(* One action per public method.  S is the set of sessions the caller      *)
(* makes the call on, N the names it passes, A the argument lists of print. *)
(***************************************************************************)
Reset(S) ==
  \E s \in S \cap Live :
    /\ Commit(reset(World, s), Call("reset", s, "this", s))
    /\ UNCHANGED now

Start(S, N) ==
  \E s \in S \cap Live, name \in N :
    /\ Commit(start(World, s, name, now), [Call("start", s, "this", s) EXCEPT !.key = name])
    /\ UNCHANGED now

Step(S, N) ==
  \E s \in S \cap Live, name \in N :
    /\ CanStep(s)
    /\ Commit(step(World, s, name, now), [Call("step", s, "this", s) EXCEPT !.key = name])
    /\ UNCHANGED now

Stop(S, N, drift) ==
  \E s \in S \cap Live, name \in N, t2 \in Later(drift) :
    /\ CanStep(s)
    /\ Commit(stop(World, s, name, now, t2), [Call("stop", s, "this", s) EXCEPT !.key = name])
    /\ now' = t2

Pause(S) ==
  \E s \in S \cap Live :
    /\ Commit(pause(World, s, now), Call("pause", s, "this", s))
    /\ UNCHANGED now

Unpause(S) ==
  \E s \in S \cap Live :
    /\ Commit(unpause(World, s, now), Call("unpause", s, "this", s))
    /\ UNCHANGED now

PrintReport(S, A) ==
  \E s \in S \cap Live, a \in A :
    /\ Commit(print(World, s, a),
              [Call("print", s, "this", s) EXCEPT !.index = a.index, !.flag = a.soleTrue])
    /\ UNCHANGED now

\* resume() calls print with its own arguments and returns nothing.
Resume(S, A) ==
  \E s \in S \cap Live, a \in A :
    /\ Commit(print(World, s, a),
              [Call("resume", s, "undefined", 0) EXCEPT !.index = a.index, !.flag = a.soleTrue])
    /\ UNCHANGED now

Log(S) ==
  \E s \in S \cap Live :
    /\ Commit(log(World, s), Call("log", s, "this", s))
    /\ UNCHANGED now

Child(S) ==
  \E s \in S \cap Live :
    /\ Len(heap) < MaxSessions
    /\ LET id == childResult(World, s) IN
       Commit(child(World, s),
              IF id = NoSession THEN Call("child", s, "undefined", 0)
              ELSE Call("child", s, "session", id))
    /\ UNCHANGED now

\* childStart(name) is this.child().start(name): on undefined, a TypeError.
ChildStart(S, N) ==
  \E s \in S \cap Live, name \in N :
    /\ Len(heap) < MaxSessions
    /\ LET id == childResult(World, s)
           w1 == child(World, s)
       IN  IF id = NoSession
           THEN Commit(w1, [Call("childStart", s, "throw", 0) EXCEPT !.key = name])
           ELSE Commit(start(w1, id, name, now),
                       [Call("childStart", s, "session", id) EXCEPT !.key = name])
    /\ UNCHANGED now

ChildStop(S, N, drift) ==
  \E s \in S \cap Live, name \in N, t2 \in Later(drift) :
    /\ Len(heap[s].children) > 0 => CanStep(lastChildResult(World, s))
    /\ Len(heap[s].children) = 0 => t2 = now
    /\ Commit(childStop(World, s, name, now, t2),
              [Call("childStop", s, "this", s) EXCEPT !.key = name])
    /\ now' = t2

LastChild(S) ==
  \E s \in S \cap Live :
    /\ Commit(lastChild(World, s), Call("lastChild", s, "session", lastChildResult(World, s)))
    /\ UNCHANGED now

GetTime(S) ==
  \E s \in S \cap Live, index \in 0 .. MaxSteps :
    /\ IF getTimeDefined(heap[s], index)
       THEN Commit(World, [Call("getTime", s, "number", getTime(heap[s], index))
                             EXCEPT !.index = index])
       ELSE Commit(Say(World, ToString(index) \o " index does not exist"),
                   [Call("getTime", s, "undefined", 0) EXCEPT !.index = index])
    /\ UNCHANGED now

\* The registry methods, called on the singleton.
CanCreate(key) == instances[key] # NoSession \/ Len(heap) < MaxSessions

NewInstance ==
  \E key \in Keys :
    /\ CanCreate(key)
    /\ LET w1 == newInstance(World, key) IN
       Commit(w1, [Call("newInstance", 1, "session", w1.inst[key]) EXCEPT !.key = key])
    /\ UNCHANGED now

GetInstance ==
  \E key \in Keys :
    /\ CanCreate(key)
    /\ LET w1 == getInstance(World, key) IN
       Commit(w1, [Call("getInstance", 1, "session", w1.inst[key]) EXCEPT !.key = key])
    /\ UNCHANGED now

StartInstance ==
  \E key \in Keys :
    /\ CanCreate(key)
    /\ instances[key] # NoSession => CanStep(instances[key])
    /\ LET tpInst == getInstance(World, key).inst[key] IN
       Commit(startInstance(World, key, now),
              [Call("startInstance", 1, "session", tpInst) EXCEPT !.key = key])
    /\ UNCHANGED now

StopInstance(drift) ==
  \E key \in Keys, endCondition \in BOOLEAN, t2 \in Later(drift) :
    /\ CanCreate(key)
    /\ endCondition /\ instances[key] # NoSession => CanStep(instances[key])
    /\ ~endCondition => t2 = now
    /\ LET tpInst == getInstance(World, key).inst[key] IN
       Commit(stopInstance(World, key, endCondition, now, t2),
              [Call("stopInstance", 1, "session", tpInst)
                 EXCEPT !.key = key, !.flag = endCondition])
    /\ now' = t2

CleanInstances ==
  /\ Commit(cleanInstances(World), Call("cleanInstances", 1, "undefined", 0))
  /\ UNCHANGED now

(***************************************************************************)
(* Spec: one session, the singleton, through every call sequence of its    *)
(* recording methods while the clock runs.                                 *)
(***************************************************************************)
Singleton == {1}

NoName == {Undef}

Next ==
  \/ Tick
  \/ Reset(Singleton)
  \/ Start(Singleton, NoName)
  \/ Step(Singleton, NoName)
  \/ Stop(Singleton, NoName, 1)
  \/ Pause(Singleton)
  \/ Unpause(Singleton)
  \/ PrintReport(Singleton, PrintArgs)

Spec == Init /\ [][Next]_vars

(***************************************************************************)
(* SpecTree: the singleton and the children it makes, the parent driving   *)
(* its children, all calls within one clock reading.                       *)
(***************************************************************************)
Sessions == 1 .. MaxSessions

\* print(undefined, true)
SilentArgs == {[soleTrue |-> FALSE, index |-> 0, silent |-> TRUE]}

NextTree ==
  \/ Reset(Singleton)
  \/ Start(Singleton, NoName)
  \/ Step(Singleton, NoName)
  \/ Stop(Singleton, NoName, 0)
  \/ PrintReport(Singleton, SilentArgs)
  \/ Child(Sessions)
  \/ ChildStart(Singleton, NoName)
  \/ ChildStop(Singleton, NoName, 0)

SpecTree == Init /\ [][NextTree]_vars

(***************************************************************************)
(* SpecRegistry: the registry of the singleton; the sessions it holds or   *)
(* has returned are also driven directly.                                  *)
(***************************************************************************)
Registered == Sessions \ Singleton

NextRegistry ==
  \/ NewInstance
  \/ GetInstance
  \/ StartInstance
  \/ StopInstance(0)
  \/ CleanInstances
  \/ Step(Registered, NoName)
  \/ Pause(Registered)

SpecRegistry == Init /\ [][NextRegistry]_vars

(***************************************************************************)
(* SpecCalls: the singleton started and stopped with every kind of name    *)
(* argument, paused and unpaused, while the clock runs.                    *)
(***************************************************************************)
NextCalls ==
  \/ Tick
  \/ Start(Singleton, NameArgs)
  \/ Step(Singleton, NoName)
  \/ Stop(Singleton, NameArgs, 1)
  \/ Pause(Singleton)
  \/ Unpause(Singleton)

SpecCalls == Init /\ [][NextCalls]_vars

(***************************************************************************)
(* SpecRead: the singleton's measurements read through resume and getTime  *)
(* while the clock runs.                                                   *)
(***************************************************************************)
NextRead ==
  \/ Tick
  \/ Start(Singleton, NoName)
  \/ Step(Singleton, NoName)
  \/ Stop(Singleton, NoName, 0)
  \/ Unpause(Singleton)
  \/ Resume(Singleton, PrintArgs)
  \/ GetTime(Singleton)

SpecRead == Init /\ [][NextRead]_vars

(***************************************************************************)
(* SpecAccum: keys driven through startInstance and stopInstance only, in  *)
(* alternating order from startInstance on, while the clock runs.          *)
(***************************************************************************)
\* The key is absent, or its session is paused: startInstance comes next.
StartComesNext(key) ==
  instances[key] = NoSession \/ heap[instances[key]].pauseStep # 0

\* The key's session is running: stopInstance comes next.
StopComesNext(key) ==
  instances[key] # NoSession /\ heap[instances[key]].pauseStep = 0

NextAccum ==
  \/ Tick
  \/ (StartInstance /\ StartComesNext(call'.key))
  \/ (StopInstance(0) /\ StopComesNext(call'.key))

SpecAccum == Init /\ [][NextAccum]_vars

(***************************************************************************)
(*                              The claims                                 *)
(***************************************************************************)
Steps(s) == heap[s].steps

LastStep(s) == Steps(s)[Len(Steps(s))]

\* C1: in every reachable state the recorded step timestamps of a session are
\* non-decreasing in step order, pauses between the steps included.
C1_TimesNonDecreasing ==
  \A s \in Live : \A i \in 1 .. Len(Steps(s)) - 1 :
    Steps(s)[i].time <= Steps(s)[i + 1].time

\* A step recorded after a pause of non-zero length: its timestamp is behind the clock.
C1_Witness ==
  /\ call.op = "step"
  /\ Len(Steps(1)) >= 2
  /\ heap[1].pauseTime > 0
  /\ LastStep(1).time < now
  /\ LastStep(1).time >= Steps(1)[Len(Steps(1)) - 1].time

\* C2 as stated: the recorded delta of two consecutive steps is the clock delta
\* minus the time the session spent paused between them, counted from the moment
\* it became paused until unpause().
C2_PauseExclusion ==
  \A s \in Live : \A i \in 1 .. Len(Steps(s)) : Steps(s)[i].gGap = 0

\* C2 as amended: the recorded delta of two consecutive steps is the clock delta
\* minus, for each unpause() between them, the time from the latest pause() or
\* stop() call before that unpause() to the unpause().
C2_PauseExclusionLatest ==
  \A s \in Live : \A i \in 1 .. Len(Steps(s)) : Steps(s)[i].gGapLatest = 0

\* A step recorded after pause(), a later pause() and unpause(): the time between
\* the two pause() calls was not excluded.
C2_Witness ==
  /\ call.op = "step"
  /\ Len(Steps(1)) >= 2
  /\ LastStep(1).gGap # 0
  /\ LastStep(1).gGapLatest = 0

\* C3: step(name) on a paused session records nothing: steps and the pending
\* children are unchanged, the session stays paused with the same pause start,
\* result becomes 0 and the session itself is returned.
C3_StepWhilePaused ==
  [][\A s \in Live :
       (call'.op = "step" /\ call'.self = s /\ heap[s].pauseStep # 0)
         => /\ heap'[s].steps = heap[s].steps
            /\ heap'[s].children = heap[s].children
            /\ heap'[s].pauseStep = heap[s].pauseStep
            /\ heap'[s].pauseTime = heap[s].pauseTime
            /\ heap'[s].result = Num(0)
            /\ call'.ret = "this"
            /\ call'.retv = s]_vars

\* step() was just refused on a stopped session that holds steps and a pending child.
C3_Witness ==
  /\ call.op = "step"
  /\ heap[call.self].pauseStep # 0
  /\ Len(call.out) = 1
  /\ Len(heap[call.self].steps) >= 2
  /\ Len(heap[call.self].children) >= 1
  /\ heap[call.self].result = Num(0)

\* The sessions of a list are in the order child() made them.
InCreationOrder(kids) == \A i, j \in 1 .. Len(kids) : i < j => kids[i] < kids[j]

\* C4: a child made after step K and before step K + 1 (the parent then holds
\* K + 1 steps) is in the pending buffer until step K + 1 is recorded and from
\* then on in steps[K + 1].children, never in steps[K].children, in creation
\* order; recording a step empties the buffer.
C4_ChildAttachment ==
  \A s \in Live :
    /\ InCreationOrder(heap[s].children)
    /\ \A k \in 1 .. Len(Steps(s)) :
         /\ \A j \in 1 .. Len(Steps(s)[k].children) :
              heap[Steps(s)[k].children[j]].gBorn = k - 1
         /\ InCreationOrder(Steps(s)[k].children)
    /\ (call.op \in {"step", "start", "stop"} /\ call.self = s /\ call.out = <<>>)
         => heap[s].children = <<>>

\* The fields of a session the code holds.
CodeFields(sess) ==
  [ steps     |-> [i \in 1 .. Len(sess.steps) |->
                     [time |-> sess.steps[i].time, name |-> sess.steps[i].name,
                      children |-> sess.steps[i].children]],
    pauseStep |-> sess.pauseStep,
    pauseTime |-> sess.pauseTime,
    result    |-> sess.result,
    strResult |-> sess.strResult,
    children  |-> sess.children,
    depth     |-> sess.depth,
    name      |-> sess.name ]

\* start() on a freshly constructed session of this depth, at clock t.
FreshStarted(depth, t) ==
  start([h |-> <<TimePerf(depth, 0)>>, out |-> <<>>, inst |-> instances], 1, Undef, t).h[1]

\* C5: reset() leaves steps empty and the pause state cleared, and start() right
\* after it gives the state start() gives on a freshly constructed session of
\* the same depth.
C5_ResetEquivalence ==
  [][\A s \in Live :
       (call.op = "reset" /\ call.self = s /\ call'.op = "start" /\ call'.self = s)
         => /\ heap[s].steps = <<>>
            /\ heap[s].pauseStep = 0
            /\ heap[s].pauseTime = 0
            /\ CodeFields(heap'[s]) = CodeFields(FreshStarted(heap[s].depth, now))]_vars

\* C6: while a key is registered and neither stopInstance(key, true) nor
\* cleanInstances() is called, the key stays mapped to the same session, and
\* getInstance(key) and newInstance(key) return that session.
C6_RegistryUniqueness ==
  [][\A k \in Keys :
       LET removing == \/ call'.op = "cleanInstances"
                       \/ call'.op = "stopInstance" /\ call'.key = k /\ call'.flag
       IN  /\ (instances[k] # NoSession /\ ~removing) => instances'[k] = instances[k]
           /\ (call'.op \in {"getInstance", "newInstance"} /\ call'.key = k)
                => /\ call'.ret = "session"
                   /\ call'.retv # NoSession
                   /\ call'.retv = instances'[k]
                   /\ instances[k] # NoSession => call'.retv = instances[k]]_vars

\* getInstance(key) has just returned a session that was registered and used before.
C6_Witness ==
  /\ call.op = "getInstance"
  /\ call.retv = instances[call.key]
  /\ Len(heap[call.retv].steps) >= 2
  /\ heap[call.retv].pauseStep # 0

\* print() on a session changes neither its result nor its text: it was printed.
Printed(sess) ==
  LET again == print([h |-> <<sess>>, out |-> <<>>, inst |-> instances], 1,
                     [soleTrue |-> FALSE, index |-> 0, silent |-> TRUE]).h[1]
  IN  again.result = sess.result /\ again.strResult = sess.strResult

\* C7: stopInstance(key, true) leaves the key out of the registry and its session
\* stopped and printed, and the next lookup of the key gives another, new
\* session; stopInstance(key, false) leaves the key mapped to the same session,
\* paused.
C7_StopInstance ==
  [][/\ (call'.op = "stopInstance" /\ call'.flag)
          => /\ instances'[call'.key] = NoSession
             /\ instances[call'.key] # NoSession => call'.retv = instances[call'.key]
             /\ heap'[call'.retv].pauseStep # 0
             /\ heap'[call'.retv].result.kind = "array"
             /\ Printed(heap'[call'.retv])
     /\ (call'.op = "stopInstance" /\ ~call'.flag)
          => /\ instances'[call'.key] = call'.retv
             /\ instances[call'.key] # NoSession => call'.retv = instances[call'.key]
             /\ heap'[call'.retv].pauseStep # 0
     /\ (call.op = "stopInstance" /\ call.flag
           /\ call'.op \in {"getInstance", "newInstance"} /\ call'.key = call.key)
          => /\ call'.retv \notin {call.retv, NoSession}
             /\ CodeFields(heap'[call'.retv]) = CodeFields(TimePerf(0, 0))]_vars

\* stopInstance(key, true) has just stopped, printed and removed a started session.
C7_Witness ==
  /\ call.op = "stopInstance"
  /\ call.flag
  /\ instances[call.key] = NoSession
  /\ Len(heap[call.retv].steps) >= 2
  /\ Len(heap[call.retv].result.arr) >= 1

\* C8: no call of a public method throws.
C8_NeverThrows == call.ret # "throw"

\* C9: print on a session with fewer than 2 steps sets result to the empty
\* sequence and a diagnostic that differs between 0 steps and 1 step, leaves
\* steps and the pause state unchanged, and returns the session.
C9_InsufficientSteps ==
  [][\A s \in Live :
       (call'.op = "print" /\ call'.self = s /\ Len(heap[s].steps) < 2)
         => /\ heap'[s].result = Arr(<<>>)
            /\ heap'[s].strResult \in {NotEnoughSteps(0), NotEnoughSteps(1)}
            /\ heap'[s].strResult = NotEnoughSteps(1) <=> Len(heap[s].steps) = 1
            /\ heap'[s].steps = heap[s].steps
            /\ heap'[s].pauseStep = heap[s].pauseStep
            /\ heap'[s].pauseTime = heap[s].pauseTime
            /\ call'.ret = "this"
            /\ call'.retv = s]_vars

\* print was just called on a session that was started and never stepped.
C9_Witness ==
  /\ call.op = "print"
  /\ Len(Steps(1)) = 1
  /\ heap[1].result = Arr(<<>>)
  /\ heap[1].strResult = NotEnoughSteps(1)

RECURSIVE SumNum(_)
SumNum(pcts) == IF pcts = <<>> THEN 0 ELSE pcts[1].num + SumNum(Tail(pcts))

C11_StartAnyState ==
  [][\A s \in Live :
       (call'.op = "start" /\ call'.self = s)
         => /\ Len(heap'[s].steps) = 1
            /\ heap'[s].steps[1].time = now
            /\ heap'[s].pauseStep = 0
            /\ heap'[s].pauseTime = 0
            /\ heap'[s].result = Num(0)
            /\ heap'[s].name = (IF call'.key \in {Undef, ""} THEN heap[s].name ELSE call'.key)]_vars

\* start("A") has just restarted the session, later than the first clock reading:
\* the one step it holds is stamped with the clock.
C11_Witness ==
  /\ call.op = "start"
  /\ call.key = "A"
  /\ heap[1].name = "A"
  /\ Len(Steps(1)) = 1
  /\ Steps(1)[1].time = now
  /\ now > 1

\* C12: print with no index right after a step that recorded step k >= 1 sets
\* result to the duration of that step, steps[k].time - steps[k - 1].time.
C12_PrintAfterStep ==
  [][\A s \in Live :
       LET k == Len(heap[s].steps) - 1 IN
       (call.op = "step" /\ call.self = s /\ k >= 1 /\ heap[s].result = Num(k)
          /\ call'.op = "print" /\ call'.self = s /\ call'.index = 0 /\ ~call'.flag)
         => heap'[s].result = Num(StepAt(heap[s], k).time - StepAt(heap[s], k - 1).time)]_vars

\* What a session has measured: its steps, pause state and pending children.
Measured(sess) ==
  [ steps     |-> CodeFields(sess).steps,
    pauseStep |-> sess.pauseStep,
    pauseTime |-> sess.pauseTime,
    children  |-> sess.children ]

\* step(name), then pause(), with the clock readings t1 and t2.
StepThenPause(s, name, t1, t2) == pause(step(World, s, name, t1), s, t2).h[s]

\* C13 as stated: stop(name) leaves the steps, step names, pause state, pending
\* children and result that step(name ?? this.name) followed by pause() leaves,
\* and returns the session.
C13_StopEquivalence ==
  [][\A s \in Live :
       (call'.op = "stop" /\ call'.self = s)
         => LET name == IF call'.key = Undef THEN heap[s].name ELSE call'.key
                both == StepThenPause(s, name, now, now')
            IN  /\ Measured(heap'[s]) = Measured(both)
                /\ heap'[s].result = both.result
                /\ call'.ret = "this" /\ call'.retv = s]_vars

\* C13 as amended: stop(name) leaves the steps, step names, pause state and
\* pending children that step(name || this.name) followed by pause() leaves (an
\* empty name counts as absent), sets result to 0 and returns the session.
C13_StopStepsThenPauses ==
  [][\A s \in Live :
       (call'.op = "stop" /\ call'.self = s)
         => LET name == IF call'.key \in {Undef, ""} THEN heap[s].name ELSE call'.key
                both == StepThenPause(s, name, now, now')
            IN  /\ Measured(heap'[s]) = Measured(both)
                /\ heap'[s].result = Num(0)
                /\ call'.ret = "this" /\ call'.retv = s]_vars

\* stop("") has just recorded a second or later step under the session's name and
\* paused the session.
C13_Witness ==
  /\ call.op = "stop"
  /\ call.key = ""
  /\ Len(Steps(1)) >= 2
  /\ LastStep(1).name = heap[1].name
  /\ LastStep(1).time = now
  /\ heap[1].pauseStep = now
  /\ heap[1].result = Num(0)

\* C14: resume(args) changes the session as print(args) does and returns the
\* session, as print does.
C14_ResumeAlias ==
  [][\A s \in Live :
       (call'.op = "resume" /\ call'.self = s)
         => /\ \E a \in PrintArgs :
                  /\ a.index = call'.index
                  /\ a.soleTrue = call'.flag
                  /\ CodeFields(heap'[s]) = CodeFields(print(World, s, a).h[s])
            /\ call'.ret = "this"
            /\ call'.retv = s]_vars

\* The status message of unpause() on a session that is not paused.
NotPausedMessage(sess) ==
  "/!\\ " \o sess.tag \o sess.name \o " has not been paused before to unpause."

\* C15: unpause() on a session that is not paused leaves steps, pauseTime,
\* pauseStep and the pending children unchanged, sets result to 0 and the
\* failure message, and returns the session.
C15_UnpauseNotPaused ==
  [][\A s \in Live :
       (call'.op = "unpause" /\ call'.self = s /\ heap[s].pauseStep = 0)
         => /\ Measured(heap'[s]) = Measured(heap[s])
            /\ heap'[s].result = Num(0)
            /\ heap'[s].strResult = NotPausedMessage(heap[s])
            /\ call'.ret = "this"
            /\ call'.retv = s]_vars

\* unpause() was just refused on a running session that holds steps and pause
\* time from an earlier pause.
C15_Witness ==
  /\ call.op = "unpause"
  /\ heap[1].strResult = NotPausedMessage(heap[1])
  /\ heap[1].result = Num(0)
  /\ heap[1].pauseTime > 0
  /\ Len(Steps(1)) >= 2

\* C16: child() on a session without steps makes no session, leaves the pending
\* children unchanged and returns nothing; on a session with a step it appends
\* one new session to the pending children, of the parent's depth + 1, with no
\* steps and not paused, returns it, and leaves the parent's steps and pause
\* state unchanged.
C16_Child ==
  [][\A s \in Live :
       (call'.op = "child" /\ call'.self = s)
         => /\ heap'[s].steps = heap[s].steps
            /\ heap'[s].pauseStep = heap[s].pauseStep
            /\ heap'[s].pauseTime = heap[s].pauseTime
            /\ IF heap[s].steps = <<>>
               THEN /\ heap'[s].children = heap[s].children
                    /\ Len(heap') = Len(heap)
                    /\ call'.ret = "undefined"
               ELSE /\ call'.ret = "session"
                    /\ call'.retv = Len(heap) + 1
                    /\ Len(heap') = Len(heap) + 1
                    /\ heap'[s].children = Append(heap[s].children, call'.retv)
                    /\ CodeFields(heap'[call'.retv])
                         = CodeFields(TimePerf(heap[s].depth + 1, 0))]_vars

\* child() has just returned a second pending child of a started session.
C16_Witness ==
  /\ call.op = "child"
  /\ call.ret = "session"
  /\ Len(heap[call.self].children) >= 2
  /\ heap[call.self].children[Len(heap[call.self].children)] = call.retv
  /\ heap[call.retv].depth = heap[call.self].depth + 1
  /\ heap[call.retv].steps = <<>>

\* C17: childStop(name) stops the most recently created pending child and
\* changes no other session, the parent included, and returns the parent; with
\* no pending child it changes no session and returns the parent.
C17_ChildStop ==
  [][\A s \in Live :
       (call'.op = "childStop" /\ call'.self = s)
         => LET kids == heap[s].children
                last == IF kids = <<>> THEN NoSession ELSE kids[Len(kids)]
            IN  /\ call'.ret = "this"
                /\ call'.retv = s
                /\ Len(heap') = Len(heap)
                /\ \A i \in Live \ {last} : heap'[i] = heap[i]
                /\ last # NoSession
                     => CodeFields(heap'[last])
                          = CodeFields(stop(World, last, call'.key, now, now').h[last])]_vars

\* childStop() has just stopped the second of two pending children; the first
\* one, started before it, is still running.
C17_Witness ==
  /\ call.op = "childStop"
  /\ Len(heap[call.self].children) = 2
  /\ heap[heap[call.self].children[2]].pauseStep # 0
  /\ Len(heap[heap[call.self].children[2]].steps) >= 2
  /\ heap[heap[call.self].children[1]].pauseStep = 0
  /\ Len(heap[heap[call.self].children[1]].steps) >= 1

\* C18: getTime(index) returns steps[index].time - steps[index - 1].time when
\* 0 < index < steps.length and no value otherwise, and changes no session.
C18_GetTime ==
  [][\A s \in Live :
       (call'.op = "getTime" /\ call'.self = s)
         => /\ heap' = heap
            /\ IF 0 < call'.index /\ call'.index < Len(heap[s].steps)
               THEN /\ call'.ret = "number"
                    /\ call'.retv = heap[s].steps[call'.index + 1].time
                                      - heap[s].steps[call'.index].time
               ELSE call'.ret = "undefined"]_vars

\* getTime(2) has just returned the duration of the second step, which came after
\* a first step of non-zero duration.
C18_Witness ==
  /\ call.op = "getTime"
  /\ call.index = 2
  /\ call.ret = "number"
  /\ call.retv = Steps(1)[3].time - Steps(1)[2].time
  /\ Steps(1)[2].time > Steps(1)[1].time

C20_ResultAsIndex ==
  [][\A s \in Live :
       /\ (call.op = "unpause" /\ call.self = s /\ heap[s].depth = 0
             /\ Len(heap[s].steps) >= 2
             /\ call'.op = "print" /\ call'.self = s /\ call'.index = 0)
            => heap'[s].result.kind = "array"
       /\ (call.op = "print" /\ call.self = s /\ call.flag
             /\ call'.op = "print" /\ call'.self = s /\ call'.flag)
            => /\ heap'[s].result = heap[s].result
               /\ heap'[s].strResult = heap[s].strResult]_vars

\* C21: pause() sets pauseStep to the current clock time, also on a session that
\* is already paused, and changes nothing else; unpause() on a paused session
\* adds to pauseTime the time since the latest pause() call.
C21_PauseOverwrites ==
  [][\A s \in Live :
       /\ (call'.op = "pause" /\ call'.self = s)
            => /\ heap'[s].pauseStep = now
               /\ heap'[s].steps = heap[s].steps
               /\ heap'[s].pauseTime = heap[s].pauseTime
               /\ heap'[s].result = heap[s].result
               /\ heap'[s].strResult = heap[s].strResult
               /\ heap'[s].children = heap[s].children
       /\ (call'.op = "unpause" /\ call'.self = s /\ heap[s].pauseStep # 0)
            => heap'[s].pauseTime = heap[s].pauseTime + (now - heap[s].gLastPause)]_vars

\* unpause() has just ended a pause that a later pause() call had restarted:
\* less than the whole pause was added to pauseTime.
C21_Witness ==
  /\ call.op = "unpause"
  /\ heap[1].pauseStep = 0
  /\ heap[1].gPaused > heap[1].gExcl
  /\ Len(Steps(1)) >= 1

\* C22: for a key driven by startInstance and stopInstance in alternating order,
\* startInstance on the paused session keeps its steps and unpauses it, and
\* stopInstance(key, true) leaves the session with 2 steps whose distance is
\* the clock time since the first startInstance minus the time spent between
\* each stopInstance(key, false) and the startInstance after it.
C22_RegistryAccumulation ==
  [][\A k \in Keys :
       LET s == instances[k] IN
       /\ (call'.op = "startInstance" /\ call'.key = k /\ s # NoSession)
            => /\ call'.retv = s
               /\ heap'[s].steps = heap[s].steps
               /\ heap'[s].pauseStep = 0
       /\ (call'.op = "stopInstance" /\ call'.key = k /\ call'.flag)
            => /\ call'.retv = s
               /\ instances'[k] = NoSession
               /\ Len(heap'[s].steps) = 2
               /\ heap'[s].steps[1] = heap[s].steps[1]
               /\ heap'[s].steps[2].time - heap'[s].steps[1].time
                    = (now - heap[s].steps[1].time) - heap[s].gPaused]_vars

\* stopInstance(key, true) has just ended a session that was paused by
\* stopInstance(key, false) for some time and then taken up again.
C22_Witness ==
  /\ call.op = "stopInstance"
  /\ call.flag
  /\ instances[call.key] = NoSession
  /\ Len(heap[call.retv].steps) = 2
  /\ heap[call.retv].pauseTime > 0
  /\ heap[call.retv].steps[2].time < now

\* The places of the session tree that refer to session c: <<p, 0, j>> is entry j
\* of the pending children of p, <<p, k, j>> entry j of the children of step k of p.
Owners(c) ==
  UNION {{<<p, 0, j>> : j \in {j \in 1 .. Len(heap[p].children) : heap[p].children[j] = c}}
           \cup UNION {{<<p, k, j>> : j \in {j \in 1 .. Len(heap[p].steps[k].children) :
                                              heap[p].steps[k].children[j] = c}}
                         : k \in 1 .. Len(heap[p].steps)}
         : p \in Live}

\* C23: in every reachable state each session is referred to from at most one
\* place of the session tree: one pending buffer or one step's children.
C23_ExclusiveOwnership ==
  \A c \in Live : Cardinality(Owners(c)) <= 1

\* One child is owned by a step of the singleton and another waits in its
\* pending buffer.
C23_Witness ==
  /\ Len(Steps(1)) >= 2
  /\ LastStep(1).children # <<>>
  /\ heap[1].children # <<>>
  /\ Cardinality(Owners(LastStep(1).children[1])) = 1
  /\ Cardinality(Owners(heap[1].children[1])) = 1

\* The registry holding the entry of key alone.
Alone(key) ==
  [World EXCEPT !.inst = [k \in Keys |-> IF k = key THEN instances[key] ELSE NoSession]]

\* The call being made is driven through key a: a registry call with that key,
\* or a call on the session registered under it.
DrivenThrough(a) ==
  \/ call'.op \in {"newInstance", "getInstance", "startInstance", "stopInstance"}
       /\ call'.key = a
  \/ call'.op \in {"step", "pause"} /\ instances[a] # NoSession /\ call'.self = instances[a]

\* C24: a call driven through key a leaves the registry entry and the session of
\* every other key b unchanged, and startInstance(a) and stopInstance(a, _) leave
\* a's session as they do when a is the only key registered.
C24_KeyIndependence ==
  [][\A a \in Keys :
       DrivenThrough(a)
         => /\ \A b \in Keys \ {a} :
                  /\ instances'[b] = instances[b]
                  /\ instances[b] # NoSession => heap'[instances[b]] = heap[instances[b]]
            /\ call'.op = "startInstance"
                 => CodeFields(heap'[call'.retv])
                      = CodeFields(startInstance(Alone(a), a, now).h[call'.retv])
            /\ call'.op = "stopInstance"
                 => CodeFields(heap'[call'.retv])
                      = CodeFields(stopInstance(Alone(a), a, call'.flag, now, now').h[call'.retv])]_vars

\* stopInstance(key, true) has just ended the session of one key while the other
\* key holds a running session with recorded steps.
C24_Witness ==
  /\ call.op = "stopInstance"
  /\ call.flag
  /\ \E b \in Keys \ {call.key} :
       /\ instances[b] # NoSession
       /\ Len(heap[instances[b]].steps) >= 2
       /\ heap[instances[b]].pauseStep = 0
       /\ instances[b] # call.retv

=============================================================================
